---- MODULE Spec2Model ----
(***************************************************************************)
(* MCTS_player of src/agent.h: construction from the option string, and    *)
(* take_action as a state machine (selection, expansion, rollout,          *)
(* backpropagation, loop test, final move selection) over a search tree    *)
(* whose nodes live at addresses, as std::vector<Node> keeps them.         *)
(*                                                                         *)
(* Numbers: a double is kept in fixed point.  explorationConstant is in    *)
(* hundredths (0.25 is 25), a UCT score is in millionths.                  *)
(***************************************************************************)
EXTENDS Integers, Sequences, FiniteSets, TLC

\* ------------------------------------------------------------------ bounds

\* board::size_x * board::size_y of the modelled board (a line of cells)
NCells == 5

\* the wall-clock budget (threshold_time) has expired after at most this many
\* iterations of the do-while loop
MaxIter == 6

\* ------------------------------------------------------- program constants

\* int cycles = 1000;
DefaultCycles == 1000

\* MCTS_player::exploration_constant = 0.25, in hundredths
DefaultExplorationConstant == 25

\* Node::exploration_constant = 0.25, in hundredths
NodeExplorationConstant == 25

\* ------------------------------------------------------------ board oracle
\* board.h is not part of the sources: the oracle is the one of the spec
\* (4.1): apply(move, state) is Legal with the resulting state, or Illegal
\* and the state is left as it was.  The rule is the one of the game the
\* agent plays (a stone may be placed on an empty cell when afterwards every
\* group on the board still has a liberty), on a line of NCells cells.

Cells == 0 .. (NCells - 1)

Boards == [Cells -> {"empty", "black", "white"}]

\* (bw==1) ? board::black : board::white
Piece(bw) == IF bw = 1 THEN "black" ELSE "white"

\* the group of cell j (the maximal run of its colour that holds it) has a
\* liberty: an empty cell e with only stones of that colour between e and j
HasLiberty(bd, j) ==
    \E e \in Cells :
        /\ bd[e] = "empty"
        /\ \A m \in Cells :
            ((e < m /\ m <= j) \/ (j <= m /\ m < e)) => bd[m] = bd[j]

ValidBoard(bd) == \A j \in Cells : bd[j] # "empty" => HasLiberty(bd, j)

Place(bd, pos, bw) == [bd EXCEPT ![pos] = Piece(bw)]

\* m.apply(tmp) == board::legal
Legal(bd, pos, bw) ==
    /\ pos \in Cells
    /\ bd[pos] = "empty"
    /\ ValidBoard(Place(bd, pos, bw))

\* move.apply(b) with the result ignored: an illegal move leaves b as it was
Apply(bd, pos, bw) == IF Legal(bd, pos, bw) THEN Place(bd, pos, bw) ELSE bd

\* for (size_t i = 0; i < size_x * size_y; i++) if (legal) moves.push_back(i)
LegalMoves(bd, bw) ==
    LET F[i \in 0 .. NCells] ==
            IF i = 0 THEN << >>
            ELSE IF Legal(bd, i - 1, bw) THEN Append(F[i - 1], i - 1)
                 ELSE F[i - 1]
    IN  F[NCells]

Range(s) == {s[i] : i \in 1 .. Len(s)}

\* the positions take_action may be handed: every group has a liberty
InputStates == {bd \in Boards : ValidBoard(bd)}

\* --------------------------------------------------------- random source
\* std::default_random_engine is minstd_rand0: x' = 16807 x mod (2^31 - 1),
\* computed without overflow (Schrage).

EngineSeed(s) == IF s % 2147483647 = 0 THEN 1 ELSE s % 2147483647

EngineNext(x) ==
    LET t == 16807 * (x % 127773) - 2836 * (x \div 127773)
    IN  IF t < 0 THEN t + 2147483647 ELSE t

\* std::uniform_int_distribution<size_t> choose(0, k - 1); choose(engine):
\* the engine's range 1 .. 2^31-2 is scaled down, a draw past the last full
\* bucket is rejected and redrawn.  Result: the engine after, and the value.
RECURSIVE UniformDraw(_, _)
UniformDraw(x, k) ==
    LET scaling == 2147483645 \div k
        past    == k * scaling
        x1      == EngineNext(x)
        ret     == x1 - 1
    IN  IF ret >= past THEN UniformDraw(x1, k)
        ELSE [engine |-> x1, value |-> ret \div scaling]

\* moves.erase(moves.begin() + i), i counted from 0
Erase(s, i) == [j \in 1 .. (Len(s) - 1) |-> IF j <= i THEN s[j] ELSE s[j + 1]]

\* ------------------------------------------------------- option parsing
\* An option is Given(s), s its value as a sequence of characters, or Absent
\* when the key is not in meta (meta.at throws std::out_of_range).

Absent == [given |-> FALSE, value |-> << >>]

Given(s) == [given |-> TRUE, value |-> s]

Digits == {"0", "1", "2", "3", "4", "5", "6", "7", "8", "9"}

DigitVal(c) ==
    CASE c = "0" -> 0 [] c = "1" -> 1 [] c = "2" -> 2 [] c = "3" -> 3
      [] c = "4" -> 4 [] c = "5" -> 5 [] c = "6" -> 6 [] c = "7" -> 7
      [] c = "8" -> 8 [] c = "9" -> 9

\* the length of the longest prefix of s made of digits
RECURSIVE DigitPrefix(_)
DigitPrefix(s) ==
    IF s # << >> /\ Head(s) \in Digits THEN 1 + DigitPrefix(Tail(s)) ELSE 0

RECURSIVE DigitsValue(_, _)
DigitsValue(s, n) ==
    IF n = 0 THEN 0 ELSE 10 * DigitsValue(s, n - 1) + DigitVal(s[n])

\* std::stoi: an optional sign, then the longest run of digits; what follows
\* is not looked at; no digit at all throws std::invalid_argument
Stoi(s) ==
    LET neg  == s # << >> /\ Head(s) = "-"
        body == IF s # << >> /\ Head(s) \in {"-", "+"} THEN Tail(s) ELSE s
        n    == DigitPrefix(body)
    IN  IF n = 0 THEN [ok |-> FALSE, val |-> 0]
        ELSE [ok |-> TRUE,
              val |-> IF neg THEN 0 - DigitsValue(body, n) ELSE DigitsValue(body, n)]

\* std::stod, in hundredths: an optional sign, digits, an optional point and
\* digits (two decimals are kept); what follows is not looked at; no digit at
\* all throws std::invalid_argument
Stod(s) ==
    LET neg  == s # << >> /\ Head(s) = "-"
        body == IF s # << >> /\ Head(s) \in {"-", "+"} THEN Tail(s) ELSE s
        n    == DigitPrefix(body)
        rest == SubSeq(body, n + 1, Len(body))
        frac == IF rest # << >> /\ Head(rest) = "." THEN Tail(rest) ELSE << >>
        f    == DigitPrefix(frac)
        d1   == IF f >= 1 THEN DigitVal(frac[1]) ELSE 0
        d2   == IF f >= 2 THEN DigitVal(frac[2]) ELSE 0
        mag  == 100 * DigitsValue(body, n) + 10 * d1 + d2
    IN  IF n = 0 /\ f = 0 THEN [ok |-> FALSE, val |-> 0]
        ELSE [ok |-> TRUE, val |-> IF neg THEN 0 - mag ELSE mag]

\* ------------------------------------------------------------ the tree
\* A Node lives at an address: heap[a] is the object at address a, live
\* until its storage is released.  The root is the local of take_action at
\* address Root; the elements of a children_ vector are the objects at the
\* addresses the vector lists, in order.  NULL is nullptr.

NULL == 0
Root == 1

\* double uct_score_; has no initialiser: the value a Node starts with is
\* not one get_UCT_child computes (every score is 0 or more)
Uninitialized == -1

\* Node::Node(engine, b, who, pos, parent)
NewNode(eng, bd, bwho, pos, parent) ==
    [live                 |-> TRUE,
     engine_              |-> eng,
     bw_                  |-> bwho,
     pos_                 |-> pos,
     parent_              |-> parent,
     children_            |-> << >>,
     cap                  |-> 0,
     moves_               |-> LegalMoves(bd, 1 - bwho),
     exploration_constant |-> NodeExplorationConstant,
     visits_              |-> 0,
     wins_                |-> 0,
     uct_score_           |-> Uninitialized]

has_untried_moves(h, a) == h[a].moves_ # << >>

has_children(h, a) == h[a].children_ # << >>

\* 1000000 * sqrt(ln(N) / n), rounded, for N, n in 1 .. 9: SqrtLog[N][n]
SqrtLog ==
    << <<0, 0, 0, 0, 0, 0, 0, 0, 0>>,
       <<832555, 588705, 480676, 416277, 372330, 339889, 314676, 294353, 277518>>,
       <<1048147, 741152, 605148, 524074, 468746, 427904, 396162, 370576, 349382>>,
       <<1177410, 832555, 679778, 588705, 526554, 480676, 445019, 416277, 392470>>,
       <<1268636, 897061, 732447, 634318, 567351, 517919, 479499, 448531, 422879>>,
       <<1338566, 946509, 772822, 669283, 598625, 546467, 505930, 473255, 446189>>,
       <<1394959, 986385, 805380, 697479, 623845, 569490, 527245, 493192, 464986>>,
       <<1442027, 1019667, 832555, 721013, 644894, 588705, 545035, 509833, 480676>>,
       <<1482304, 1048147, 855809, 741152, 662906, 605148, 560258, 524074, 494101>> >>

\* double(child.wins_) / double(child.visits_)
\*   + std::sqrt(std::log(double(visits_)) / child.visits_) * exploration_constant
\* in millionths; c is the exploration constant in hundredths.  A division
\* by zero visits or the logarithm of zero has no value here.
UCTScore(wins, visits, parentVisits, c) ==
    (wins * 1000000) \div visits
        + (c * SqrtLog[parentVisits][visits]) \div 100

\* the loop of get_UCT_child counting a visit of every child it scores
WithScoresAndVisits(h, a) ==
    [x \in 1 .. Len(h) |->
        IF x \in Range(h[a].children_)
        THEN [h[x] EXCEPT !.uct_score_ =
                 UCTScore(h[x].wins_, h[x].visits_, h[a].visits_,
                          h[a].exploration_constant),
                          !.visits_ = @ + 1]
        ELSE h[x]]

\* the loop of get_UCT_child: every child gets its uct_score_
WithScores(h, a) ==
    [x \in 1 .. Len(h) |->
        IF x \in Range(h[a].children_)
        THEN [h[x] EXCEPT !.uct_score_ =
                 UCTScore(h[x].wins_, h[x].visits_, h[a].visits_,
                          h[a].exploration_constant)]
        ELSE h[x]]

\* std::max_element over children_ by uct_score_: the first of the largest
MaxScoreIndex(h, kids) ==
    CHOOSE i \in 1 .. Len(kids) :
        /\ \A j \in 1 .. Len(kids) : h[kids[j]].uct_score_ <= h[kids[i]].uct_score_
        /\ \A j \in 1 .. (i - 1) : h[kids[j]].uct_score_ < h[kids[i]].uct_score_

\* Node::get_UCT_child: the heap after, and the address returned
get_UCT_child(h, a) ==
    LET h1 == WithScores(h, a)
    IN  [heap |-> h1, node |-> h[a].children_[MaxScoreIndex(h1, h[a].children_)]]

\* pop_untried_move that returns the move and leaves it in moves_
PopUntriedMoveKeep(h, a) ==
    LET d == UniformDraw(h[a].engine_, Len(h[a].moves_))
    IN  [heap |-> [h EXCEPT ![a].engine_ = d.engine],
         bw   |-> 1 - h[a].bw_,
         pos  |-> h[a].moves_[d.value + 1]]

\* Node::pop_untried_move: draws from the node's own engine_, erases the
\* move; the heap after, and the tuple (1 - bw_, pos) returned
pop_untried_move(h, a) ==
    LET d == UniformDraw(h[a].engine_, Len(h[a].moves_))
    IN  [heap |-> [h EXCEPT ![a].engine_ = d.engine,
                            ![a].moves_ = Erase(h[a].moves_, d.value)],
         bw   |-> 1 - h[a].bw_,
         pos  |-> h[a].moves_[d.value + 1]]

\* Node's implicit copy constructor (the destructor is user-declared, so
\* there is no move constructor): every field is copied as it is, parent_
\* included, and children_ is copied element by element into new storage.
\* CopyNode(h, a) is h with the copy of the object at a as its last object.
RECURSIVE CopyNode(_, _), CopyNodes(_, _, _)
CopyNode(h, a) ==
    LET r == CopyNodes(h, h[a].children_, << >>)
    IN  Append(r.heap, [h[a] EXCEPT !.children_ = r.addrs, !.cap = Len(r.addrs)])

CopyNodes(h, kids, acc) ==
    IF kids = << >> THEN [heap |-> h, addrs |-> acc]
    ELSE LET h1 == CopyNode(h, Head(kids))
         IN  CopyNodes(h1, Tail(kids), Append(acc, Len(h1)))

\* ~Node on the object at a: its children_ are destroyed with it
RECURSIVE DestroyNode(_, _), DestroyNodes(_, _)
DestroyNode(h, a) ==
    [DestroyNodes(h, h[a].children_) EXCEPT ![a].live = FALSE]

DestroyNodes(h, kids) ==
    IF kids = << >> THEN h
    ELSE DestroyNodes(DestroyNode(h, Head(kids)), Tail(kids))

\* std::vector growth on emplace_back into full storage
GrowCapacity(n) == IF n = 0 THEN 1 ELSE 2 * n

\* Node::add_child: Node node(engine, b, who, pos, this);
\* children_.emplace_back(node); return &children_.back();
\* add_child whose reallocation leaves the old children behind
AddChildForgetful(h, a, eng, bd, bwho, pos) ==
    LET node == NewNode(eng, bd, bwho, pos, a)
        old  == h[a].children_
    IN  IF Len(old) < h[a].cap
        THEN LET h1 == Append(h, node)
             IN  [heap |-> [h1 EXCEPT ![a].children_ = Append(old, Len(h1))],
                  node |-> Len(h1)]
        ELSE LET h1  == Append(h, node)
                 h2  == DestroyNodes(h1, old)
             IN  [heap |-> [h2 EXCEPT ![a].children_ = <<Len(h1)>>,
                                      ![a].cap = GrowCapacity(h[a].cap)],
                  node |-> Len(h1)]

\* With room left the copy of node is built in the next slot.  Without, the
\* vector allocates new storage, copies every element over and destroys
\* the old ones: every child of a is then at a new address.
add_child(h, a, eng, bd, bwho, pos) ==
    LET node == NewNode(eng, bd, bwho, pos, a)
        old  == h[a].children_
    IN  IF Len(old) < h[a].cap
        THEN LET h1 == Append(h, node)
             IN  [heap |-> [h1 EXCEPT ![a].children_ = Append(old, Len(h1))],
                  node |-> Len(h1)]
        ELSE LET r   == CopyNodes(h, old, << >>)
                 h1  == Append(r.heap, node)
                 h2  == DestroyNodes(h1, old)
             IN  [heap |-> [h2 EXCEPT ![a].children_ = Append(r.addrs, Len(h1)),
                                      ![a].cap = GrowCapacity(h[a].cap)],
                  node |-> Len(h1)]

\* update with the two counters exchanged
UpdateSwapped(h, a, win) ==
    [h EXCEPT ![a].wins_ = @ + 1,
              ![a].visits_ = @ + (IF win THEN 1 ELSE 0)]

\* update that leaves the root out
UpdateBelowRoot(h, a, win) ==
    IF h[a].parent_ = NULL THEN h
    ELSE [h EXCEPT ![a].visits_ = @ + 1,
                   ![a].wins_ = @ + (IF win THEN 1 ELSE 0)]

\* Node::update
update(h, a, win) ==
    [h EXCEPT ![a].visits_ = @ + 1,
              ![a].wins_ = @ + (IF win THEN 1 ELSE 0)]

\* move_ratio with ratio = (float) wins / (float) visits, in thousandths
MoveRatioByWinRate(h) ==
    LET kids == h[Root].children_
        first(p) == CHOOSE i \in 1 .. Len(kids) :
                        /\ h[kids[i]].pos_ = p
                        /\ \A j \in 1 .. (i - 1) : h[kids[j]].pos_ # p
    IN  [p \in {h[kids[i]].pos_ : i \in 1 .. Len(kids)} |->
            (1000 * h[kids[first(p)]].wins_) \div h[kids[first(p)]].visits_]

\* the std::map move_ratio of take_action: emplace keeps the first entry of
\* a key; the value is float(visits)
MoveRatio(h) ==
    LET kids == h[Root].children_
        first(p) == CHOOSE i \in 1 .. Len(kids) :
                        /\ h[kids[i]].pos_ = p
                        /\ \A j \in 1 .. (i - 1) : h[kids[j]].pos_ # p
    IN  [p \in {h[kids[i]].pos_ : i \in 1 .. Len(kids)} |-> h[kids[first(p)]].visits_]

\* std::max_element over the map, in key order: the first of the largest
BestMove(h) ==
    LET m == MoveRatio(h)
    IN  CHOOSE p \in DOMAIN m :
            /\ \A q \in DOMAIN m : m[q] <= m[p]
            /\ \A q \in DOMAIN m : q < p => m[q] < m[p]

\* --------------------------------------------------------------- state

VARIABLES
    meta,                   \* agent::meta: the options role, T, exp, seed
    who,                    \* MCTS_player::who: 1 black, 0 white
    cycles,                 \* MCTS_player::cycles
    exploration_constant,   \* MCTS_player::exploration_constant, hundredths
    engine,                 \* random_agent::engine
    state,                  \* take_action's argument
    heap,                   \* the Node objects by address; heap[Root] is root
    node,                   \* Node *node of the loop body
    b,                      \* the scratch board b of the loop body
    bw,                     \* the player to act in the rollout
    winner,                 \* size_t winner
    itr,                    \* int itr
    expired,                \* whether dt < threshold_time has been seen false
    pc,                     \* where take_action is
    result,                 \* the action take_action returned
    plies,                  \* moves played by the rollout of this iteration
    uctC,                   \* the constant the last get_UCT_child used, or -1
    run,                    \* 1, or 2 in the second of two runs
    first,                  \* what the first of two runs ended with
    leaf,                   \* the node the rollout of this iteration left from
    before,                 \* the heap as backpropagation found it
    prev,                   \* tuple_agent::prev: a board's address, or NULL
    current,                \* tuple_agent::current: a board's address, or NULL
    trained,                \* the boards update adjusted net for, in order
    calls,                  \* the boards put_board was called with, in order
    ran,                    \* whether the last put_board called update
    tpc                     \* "ready", or "crashed" by a null dereference

vars == <<meta, who, cycles, exploration_constant, engine, state, heap, node,
          b, bw, winner, itr, expired, pc, result, plies, uctC, run, first,
          leaf, before, prev, current, trained, calls, ran, tpc>>

\* the state of the tuple_agent
learner == <<prev, current, trained, calls, ran, tpc>>

\* what backpropagation is compared with
history == <<leaf, before>>

config == <<meta, who, cycles, exploration_constant>>

\* the option strings the model constructs the agent with
RoleOptions == {"black", "white"}

TOptions ==
    {Absent, Given(<<"0">>), Given(<<"1">>), Given(<<"3">>), Given(<<"-", "1">>),
     Given(<<"2", "x">>), Given(<<"x">>)}

ExpOptions == {Absent, Given(<<"2">>), Given(<<"1", "x">>), Given(<<"x">>)}

SeedOptions == {Absent, Given(<<"7">>)}

\* the option sets the agent is constructed with: every role and seed, with
\* every T (exp left out) and with every exp (T left out)
MetaOptions ==
    {m \in [role : RoleOptions, T : TOptions, exp : ExpOptions, seed : SeedOptions] :
        ~m.T.given \/ ~m.exp.given}

\* action(): the empty move
EmptyAction == [type |-> "none", pos |-> 0, piece |-> "empty"]

\* action::place(pos, who)
PlaceAction(pos, piece) == [type |-> "place", pos |-> pos, piece |-> piece]

NoRun == [itr |-> 0, result |-> EmptyAction]

\* try { cycles = std::stoi(cycle()); } catch (std::exception &) {}
ParseCycles(opt) ==
    IF opt.given /\ Stoi(opt.value).ok THEN Stoi(opt.value).val
    ELSE DefaultCycles

\* try { exploration_constant = std::stod(exp_cons()); } catch (std::exception &) {}
ParseExp(opt) ==
    IF opt.given /\ Stod(opt.value).ok THEN Stod(opt.value).val
    ELSE DefaultExplorationConstant

\* random_agent: engine.seed(int(meta["seed"])) when the option is there,
\* the default seed 1 otherwise
SeededEngine(opt) ==
    IF opt.given THEN EngineSeed(Stod(opt.value).val \div 100) ELSE 1

EmptyBoard == [c \in Cells |-> "empty"]

\* MCTS_player::MCTS_player with a valid name and role
Init ==
    /\ meta \in MetaOptions
    /\ who = (IF meta.role = "black" THEN 1 ELSE 0)
    /\ cycles = ParseCycles(meta.T)
    /\ exploration_constant = ParseExp(meta.exp)
    /\ engine = SeededEngine(meta.seed)
    /\ state = EmptyBoard
    /\ heap = << >>
    /\ node = NULL
    /\ b = EmptyBoard
    /\ bw = 0
    /\ winner = 0
    /\ itr = 0
    /\ expired = FALSE
    /\ pc = "idle"
    /\ result = EmptyAction
    /\ plies = 0
    /\ uctC = -1
    /\ run = 1
    /\ first = NoRun
    /\ leaf = NULL
    /\ before = << >>
    /\ prev = NULL
    /\ current = NULL
    /\ trained = << >>
    /\ calls = << >>
    /\ ran = FALSE
    /\ tpc = "ready"

\* a root whose mover is the acting player: its untried moves are the
\* opponent's legal moves
RootNodeWrongMover(eng, s, w) == NewNode(eng, s, w, NCells, NULL)

\* Node root(engine, b, 1-who, space_size);
RootNode(eng, s, w) == NewNode(eng, s, 1 - w, NCells, NULL)

\* take_action(state) up to the do: the root is built, itr = 0
TakeAction ==
    /\ pc = "idle"
    /\ \E s \in InputStates :
        /\ state' = s
        /\ heap' = << RootNode(engine, s, who) >>
    /\ itr' = 0
    /\ expired' = FALSE
    /\ pc' = "loop"
    /\ UNCHANGED <<learner, config, history, engine, node, b, bw, winner, result, plies, uctC,
                   run, first>>

\* the head of the loop body going on with the board of the last iteration
IterBeginKeepBoard ==
    /\ pc = "loop"
    /\ node' = Root
    /\ pc' = "select"
    /\ UNCHANGED <<learner, config, history, engine, state, heap, b, bw, winner, itr,
                   expired, result, plies, uctC, run, first>>

\* the head of the loop body: Node *node = &root; board b = board(state);
IterBegin ==
    /\ pc = "loop"
    /\ node' = Root
    /\ b' = state
    /\ pc' = "select"
    /\ UNCHANGED <<learner, config, history, engine, state, heap, bw, winner, itr, expired,
                   result, plies, uctC, run, first>>

\* a selection loop that also descends from a node with untried moves
\* while the node has as many children as visits
SelectionConditionWidening(h, a) ==
    /\ has_children(h, a)
    /\ ~has_untried_moves(h, a) \/ Len(h[a].children_) >= h[a].visits_

\* while (!node->has_untried_moves() && node->has_children())
SelectionCondition(h, a) == ~has_untried_moves(h, a) /\ has_children(h, a)

\* one turn of the selection loop
Selection ==
    /\ pc = "select"
    /\ SelectionCondition(heap, node)
    /\ LET r == get_UCT_child(heap, node)
       IN  /\ heap' = r.heap
           /\ node' = r.node
           /\ b' = Apply(b, heap[r.node].pos_, heap[r.node].bw_)
    /\ uctC' = heap[node].exploration_constant
    /\ UNCHANGED <<learner, config, history, engine, state, bw, winner, itr, expired, pc,
                   result, plies, run, first>>

\* the selection loop is left with untried moves: expansion, and the first
\* line of the simulation (bw = 1 - node->get_player())
Expansion ==
    /\ pc = "select"
    /\ ~SelectionCondition(heap, node)
    /\ has_untried_moves(heap, node)
    /\ LET m  == pop_untried_move(heap, node)
           b1 == Apply(b, m.pos, m.bw)
           r  == add_child(m.heap, node, engine, b1, m.bw, m.pos)
       IN  /\ b' = b1
           /\ heap' = r.heap
           /\ node' = r.node
           /\ bw' = 1 - r.heap[r.node].bw_
    /\ plies' = 0
    /\ pc' = "rollout"
    /\ UNCHANGED <<learner, config, history, engine, state, winner, itr, expired, result, uctC,
                   run, first>>

\* the selection loop is left at a node with no untried move and no child:
\* expansion is skipped
NoExpansion ==
    /\ pc = "select"
    /\ ~SelectionCondition(heap, node)
    /\ ~has_untried_moves(heap, node)
    /\ bw' = 1 - heap[node].bw_
    /\ plies' = 0
    /\ pc' = "rollout"
    /\ UNCHANGED <<learner, config, history, engine, state, heap, node, b, winner, itr, expired,
                   result, uctC, run, first>>

\* a turn of the rollout loop that leaves the move unapplied
RolloutPlyNoApply ==
    /\ pc = "rollout"
    /\ LET moves == LegalMoves(b, bw)
       IN  /\ moves # << >>
           /\ engine' = UniformDraw(engine, Len(moves)).engine
    /\ bw' = 1 - bw
    /\ plies' = plies + 1
    /\ UNCHANGED <<learner, config, history, state, heap, node, b, winner, itr, expired, pc,
                   result, uctC, run, first>>

\* one turn of the rollout loop that plays a move
RolloutPly ==
    /\ pc = "rollout"
    /\ LET moves == LegalMoves(b, bw)
       IN  /\ moves # << >>
           /\ LET d == UniformDraw(engine, Len(moves))
              IN  /\ engine' = d.engine
                  /\ b' = Apply(b, moves[d.value + 1], bw)
    /\ bw' = 1 - bw
    /\ plies' = plies + 1
    /\ UNCHANGED <<learner, config, history, state, heap, node, winner, itr, expired, pc, result,
                   uctC, run, first>>

\* the end of the rollout naming the player with no move as the winner
RolloutEndStuckWins ==
    /\ pc = "rollout"
    /\ LegalMoves(b, bw) = << >>
    /\ winner' = bw
    /\ pc' = "backprop"
    /\ leaf' = node
    /\ before' = heap
    /\ UNCHANGED <<learner, config, engine, state, heap, node, b, bw, itr, expired,
                   result, plies, uctC, run, first>>

\* if (moves.empty()) break; size_t winner = 1 - bw;
RolloutEnd ==
    /\ pc = "rollout"
    /\ LegalMoves(b, bw) = << >>
    /\ winner' = 1 - bw
    /\ pc' = "backprop"
    /\ leaf' = node
    /\ before' = heap
    /\ UNCHANGED <<learner, config, engine, state, heap, node, b, bw, itr, expired,
                   result, plies, uctC, run, first>>

\* what node->update(...); node = node->get_parent(); can do: on a live
\* object the update; on released storage (a stale parent_) the behaviour is
\* undefined: the old bytes may still be there, or the program crashes
BackpropOutcomes(h, a) == IF h[a].live THEN {"ok"} ELSE {"stale", "crash"}

\* backpropagation with an if for the while: the parent chain is not walked
BackpropagationOnce ==
    /\ pc = "backprop"
    /\ node # NULL
    /\ heap' = update(heap, node, winner = heap[node].bw_)
    /\ node' = NULL
    /\ UNCHANGED <<learner, config, history, engine, state, b, bw, winner, itr, expired,
                   pc, result, plies, uctC, run, first>>

\* one turn of the backpropagation loop
Backpropagation ==
    /\ pc = "backprop"
    /\ node # NULL
    /\ \E o \in BackpropOutcomes(heap, node) :
        IF o = "crash"
        THEN /\ pc' = "crashed"
             /\ UNCHANGED <<heap, node>>
        ELSE /\ heap' = update(heap, node, winner = heap[node].bw_)
             /\ node' = heap[node].parent_
             /\ pc' = pc
    /\ UNCHANGED <<learner, config, history, engine, state, b, bw, winner, itr, expired, result,
                   plies, uctC, run, first>>

\* the clock readings the loop test can see after iteration number n
Expiry(n) == IF n >= MaxIter THEN {TRUE} ELSE BOOLEAN

\* the loop test with itr < cycles
ContinueLoopStrict(e, n, c) == ~e /\ n < c

\* dt < threshold_time && itr <= cycles
ContinueLoop(e, n, c) == ~e /\ n <= c

\* dt = ...; itr++; } while (dt < threshold_time && itr <= cycles);
LoopTest ==
    /\ pc = "backprop"
    /\ node = NULL
    /\ itr' = itr + 1
    /\ \E e \in Expiry(itr + 1) :
        /\ expired' = e
        /\ pc' = IF ContinueLoop(e, itr + 1, cycles) THEN "loop" ELSE "final"
    /\ UNCHANGED <<learner, config, history, engine, state, heap, node, b, bw, winner, result,
                   plies, uctC, run, first>>

\* the move returned with the other colour
FinalMoveOtherPiece(h, w) ==
    IF h[Root].children_ = << >> THEN EmptyAction
    ELSE PlaceAction(BestMove(h), Piece(1 - w))

\* what take_action returns after the loop
FinalMove(h, w) ==
    IF h[Root].children_ = << >> THEN EmptyAction
    ELSE PlaceAction(BestMove(h), Piece(w))

Final ==
    /\ pc = "final"
    /\ result' = FinalMove(heap, who)
    /\ pc' = "done"
    /\ UNCHANGED <<learner, config, history, engine, state, heap, node, b, bw, winner, itr,
                   expired, plies, uctC, run, first>>

Next ==
    \/ TakeAction
    \/ IterBegin
    \/ Selection
    \/ Expansion
    \/ NoExpansion
    \/ RolloutPly
    \/ RolloutEnd
    \/ Backpropagation
    \/ LoopTest
    \/ Final

Spec == Init /\ [][Next]_vars

\* the engine of the first run, as it was left
UsedEngine == engine

\* the engine of an agent constructed from the same options
FreshEngine == SeededEngine(meta.seed)

\* A second run: an agent constructed again from the same options, and
\* take_action called on the same state.
Rerun ==
    /\ pc = "done"
    /\ run = 1
    /\ first' = [itr |-> itr, result |-> result]
    /\ run' = 2
    /\ engine' = FreshEngine
    /\ heap' = << RootNode(FreshEngine, state, who) >>
    /\ itr' = 0
    /\ expired' = FALSE
    /\ pc' = "loop"
    /\ leaf' = NULL
    /\ before' = << >>
    /\ UNCHANGED <<learner, config, state, node, b, bw, winner, result, plies, uctC>>

NextPair == Next \/ Rerun

\* the agents the two runs are made with
InitPair ==
    /\ Init
    /\ meta.T \in {Absent, Given(<<"1">>), Given(<<"3">>)}
    /\ meta.exp \in {Absent, Given(<<"2">>)}

SpecPair == InitPair /\ [][NextPair]_vars

\* ------------------------------------------------------------ tuple_agent

\* the number of board objects the caller has
NBoards == 3

\* the number of put_board calls followed
MaxCalls == 4

\* the addresses put_board can be handed
BoardPointers == 1 .. NBoards

\* what update() can do: with prev and current on boards, the adjustment of
\* net at the entries of *prev; with one of them NULL the dereference is
\* undefined: the program crashes, or goes on with whatever was read
UpdateOutcomes(p, c) ==
    IF p # NULL /\ c # NULL THEN {"ok"} ELSE {"crash", "garbage"}

\* tuple_agent::put_board(b), with the update() it calls
PutBoard(bp) ==
    /\ tpc = "ready"
    /\ Len(calls) < MaxCalls
    /\ calls' = Append(calls, bp)
    /\ IF prev = NULL
       THEN /\ prev' = bp
            /\ ran' = FALSE
            /\ UNCHANGED <<current, trained, tpc>>
       ELSE /\ prev' = current
            /\ current' = bp
            /\ ran' = TRUE
            /\ \E o \in UpdateOutcomes(current, bp) :
                 /\ tpc' = (IF o = "crash" THEN "crashed" ELSE "ready")
                 /\ trained' = (IF o = "crash" THEN trained
                                ELSE Append(trained, current))
    /\ UNCHANGED <<config, history, engine, state, heap, node, b, bw, winner,
                   itr, expired, pc, result, plies, uctC, run, first>>

\* any sequence of put_board calls on the caller's boards
NextTuple == \E bp \in BoardPointers : PutBoard(bp)

\* a tuple_agent as constructed: prev = NULL; current = NULL;
InitTuple ==
    /\ Init
    /\ meta.role = "black"
    /\ meta.T = Absent
    /\ meta.exp = Absent
    /\ meta.seed = Absent

SpecTuple == InitTuple /\ [][NextTuple]_vars

\* ------------------------------------------------------------ properties

\* the children of the root, as the set of their addresses
RootChildren == Range(heap[Root].children_)

Returned == pc = "done"

\* C1: a non-empty move returned by take_action is a placement by the acting
\* player that is legal in the input state, at the position of one of the
\* root's children.
C1_ReturnedMoveLegal ==
    (Returned /\ result.type = "place") =>
        /\ result.piece = Piece(who)
        /\ Legal(state, result.pos, who)
        /\ \E c \in RootChildren : heap[c].pos_ = result.pos

\* C1 witness: a move has been returned from a root with several children
C1_Witness ==
    /\ Returned
    /\ result.type = "place"
    /\ Cardinality(RootChildren) >= 2
    /\ itr >= 3

\* C2: when the loop has ended and the root has a child, the returned move
\* is the move of a root child whose visit count is the largest among the
\* root's children.
C2_MostVisitedChild ==
    (Returned /\ RootChildren # {}) =>
        \E c \in RootChildren :
            /\ result = PlaceAction(heap[c].pos_, Piece(who))
            /\ \A d \in RootChildren : heap[d].visits_ <= heap[c].visits_

\* C2 witness: the returned move is the move of the most visited child while
\* another child has the better wins/visits ratio
C2_Witness ==
    /\ Returned
    /\ \E c, d \in RootChildren :
        /\ heap[c].pos_ = result.pos
        /\ heap[d].visits_ < heap[c].visits_
        /\ heap[d].wins_ * heap[c].visits_ > heap[c].wins_ * heap[d].visits_

Max(x, y) == IF x >= y THEN x ELSE y

\* C3 as stated: one call performs at least one and at most cycles + 1
\* iterations, exactly one with cycles = 0, and exactly cycles + 1 when the
\* time budget never expires.
C3_Original ==
    Returned =>
        /\ 1 <= itr /\ itr <= cycles + 1
        /\ cycles = 0 => itr = 1
        /\ ~expired => itr = cycles + 1

\* C3 amended: one call performs at least one and at most max(cycles + 1, 1)
\* iterations, exactly one with cycles <= 0, and exactly max(cycles + 1, 1)
\* when the time budget never expires.
C3_IterationCount ==
    Returned =>
        /\ 1 <= itr /\ itr <= Max(cycles + 1, 1)
        /\ cycles <= 0 => itr = 1
        /\ ~expired => itr = Max(cycles + 1, 1)

\* C3 witness: a call with cycles = 3 whose budget never expired has
\* returned after four iterations
C3_Witness == Returned /\ ~expired /\ cycles = 3 /\ itr = 4

\* the objects of the tree: what can be reached from the root
LiveNodes == {a \in 1 .. Len(heap) : heap[a].live}

RECURSIVE SumVisits(_, _)
SumVisits(h, kids) ==
    IF kids = << >> THEN 0
    ELSE h[Head(kids)].visits_ + SumVisits(h, Tail(kids))

\* between two iterations, or after the last
IterationsComplete == pc \in {"loop", "final", "done"}

\* C4 as stated: the exploration weight get_UCT_child uses is the same for
\* every node and is the driver's exploration_constant (the exp option when
\* it parses, 0.25 otherwise).
C4_Original ==
    uctC # -1 =>
        /\ exploration_constant = ParseExp(meta.exp)
        /\ uctC = exploration_constant
        /\ \A a \in LiveNodes : heap[a].exploration_constant = uctC

\* C5: after any number of complete iterations, the visit counts of the
\* children of any node of the tree sum to at most the node's visit count.
C5_ChildrenVisitsBounded ==
    IterationsComplete =>
        \A a \in LiveNodes : SumVisits(heap, heap[a].children_) <= heap[a].visits_

\* C5 witness: after an iteration the root has been visited more often than
\* its two or more children together, and a child has a visited child
C5_Witness ==
    /\ IterationsComplete
    /\ heap # << >>
    /\ Len(heap[Root].children_) >= 2
    /\ \E c \in RootChildren :
        /\ heap[c].children_ # << >>
        /\ SumVisits(heap, heap[c].children_) >= 1
        /\ SumVisits(heap, heap[c].children_) < heap[c].visits_

\* C6: at any time every node has wins <= visits.
C6_WinsAtMostVisits ==
    \A a \in 1 .. Len(heap) : heap[a].wins_ <= heap[a].visits_

\* C6 witness: a node with as many wins as visits, and a node with fewer
C6_Witness ==
    /\ \E a \in LiveNodes : heap[a].visits_ >= 2 /\ heap[a].wins_ = heap[a].visits_
    /\ \E a \in LiveNodes : heap[a].wins_ >= 1 /\ heap[a].wins_ < heap[a].visits_

ActorMoves == LegalMoves(state, who)

Started == pc # "idle"

\* C8: with exactly one legal move for the acting player in the input state,
\* take_action returns that move, whatever cycles is and whenever the time
\* budget expires.
C8_SingleMoveReturned ==
    (Returned /\ Len(ActorMoves) = 1) =>
        result = PlaceAction(ActorMoves[1], Piece(who))

\* C8 witness: the single legal move has been returned by a call with
\* cycles = 0, and by a call that ran several iterations
C8_Witness ==
    /\ Returned
    /\ Len(ActorMoves) = 1
    /\ result.type = "place"
    /\ (cycles = 0 \/ (itr >= 3 /\ expired))

\* C9: with no legal move for the acting player in the input state,
\* take_action does not fail and returns the empty move: the root never
\* gets a child, no iteration selects or expands, and of the tree only the
\* root's counters change.
C9_NoMoveEmptyAction ==
    (Started /\ ActorMoves = << >>) =>
        /\ pc # "crashed"
        /\ Len(heap) = 1
        /\ uctC = -1
        /\ heap[Root].children_ = << >>
        /\ heap[Root].moves_ = << >>
        /\ heap[Root].engine_ = FreshEngine
        /\ heap[Root].uct_score_ = Uninitialized
        /\ heap[Root].live
        /\ Returned => result = EmptyAction

\* C9 witness: the empty move has been returned after several iterations
\* that each counted a visit of the root, on a board where the opponent
\* could still move
C9_Witness ==
    /\ Returned
    /\ ActorMoves = << >>
    /\ LegalMoves(state, 1 - who) # << >>
    /\ itr >= 2
    /\ heap[Root].visits_ = itr
    /\ result = EmptyAction

\* C10: the rollout of an iteration plays at most NCells moves, and it ends
\* exactly when the player to act has no legal move.
C10_RolloutBounded ==
    /\ plies <= NCells
    /\ pc = "backprop" => (LegalMoves(b, 1 - winner) = << >> /\ bw = 1 - winner)
    /\ (pc = "rollout" /\ LegalMoves(b, bw) # << >>) => plies < NCells

\* C10 witness: a rollout has ended after three moves or more
C10_Witness == pc = "backprop" /\ plies >= 3

\* a step of take_action that is one call of get_UCT_child: the only step
\* that starts and ends inside the selection loop
SelectionStep == pc = "select" /\ pc' = "select"

\* the object x without its uct_score_
Unscored(x) == [x EXCEPT !.uct_score_ = Uninitialized]

\* C11 as stated: a call of get_UCT_child modifies no state of the node or
\* of its children, and a repeated call returns the same child.
C11_Original ==
    [][SelectionStep =>
          /\ heap' = heap
          /\ get_UCT_child(heap', node).node = node']_vars

\* C11 amended: a call of get_UCT_child modifies nothing of the node or of
\* its children but the children's uct_score_, and a repeated call with no
\* update in between returns the same child and writes the same scores.
C11_OnlyScoresWritten ==
    [][SelectionStep =>
          /\ Len(heap') = Len(heap)
          /\ \A a \in 1 .. Len(heap) : Unscored(heap'[a]) = Unscored(heap[a])
          /\ heap'[node] = heap[node]
          /\ get_UCT_child(heap', node).node = node'
          /\ get_UCT_child(heap', node).heap = heap']_vars

\* C11 witness: get_UCT_child has chosen among two or more children of
\* different scores
C11_Witness ==
    /\ pc = "select"
    /\ node # Root
    /\ \E c, d \in RootChildren :
        /\ c # d
        /\ heap[c].uct_score_ # Uninitialized
        /\ heap[d].uct_score_ # Uninitialized
        /\ heap[c].uct_score_ # heap[d].uct_score_

\* the text s without a leading sign
Unsigned(s) == IF s # << >> /\ Head(s) \in {"-", "+"} THEN Tail(s) ELSE s

\* the text s is an integer: a sign or none, then digits and nothing else
IntegerText(s) == Unsigned(s) # << >> /\ Range(Unsigned(s)) \subseteq Digits

\* the text s is a decimal number: a sign or none, digits with at most one
\* point among them, at least one digit, and nothing else
DecimalText(s) ==
    LET u == Unsigned(s)
    IN  /\ \E i \in 1 .. Len(u) : u[i] \in Digits
        /\ Range(u) \subseteq (Digits \cup {"."})
        /\ Cardinality({i \in 1 .. Len(u) : u[i] = "."}) <= 1

\* C12 as stated: with T or exp absent or malformed (a numeric prefix
\* followed by other characters included) construction succeeds with the
\* default kept: cycles = 1000, explorationConstant = 0.25.
C12_Original ==
    /\ (~meta.T.given \/ ~IntegerText(meta.T.value)) => cycles = DefaultCycles
    /\ (~meta.exp.given \/ ~DecimalText(meta.exp.value)) =>
           exploration_constant = DefaultExplorationConstant

\* following parent_ from a, the root is met within n steps
RECURSIVE ReachesRoot(_, _, _)
ReachesRoot(h, a, n) ==
    \/ a = Root
    \/ /\ n > 0
       /\ a # NULL
       /\ ReachesRoot(h, h[a].parent_, n - 1)

\* C13: at every point of a search the parent_ of every node but the root
\* is the live node whose children_ holds it, the objects released by the
\* growth of a children_ vector had no children, and the parent chain of
\* every node ends at the root.
C13_ParentsLive ==
    /\ pc # "crashed"
    /\ heap # << >> => heap[Root].live /\ heap[Root].parent_ = NULL
    /\ \A a \in 1 .. Len(heap) :
        IF heap[a].live
        THEN /\ Range(heap[a].children_) \subseteq LiveNodes
             /\ a # Root =>
                   /\ heap[a].parent_ \in LiveNodes
                   /\ a \in Range(heap[heap[a].parent_].children_)
             /\ ReachesRoot(heap, a, Len(heap))
        ELSE heap[a].children_ = << >>
    /\ (Started /\ node # NULL) => node \in LiveNodes

\* C13 witness: children of the root have been moved to new storage, and
\* later a moved child has got a child of its own
C13_Witness ==
    /\ \E a \in 1 .. Len(heap) : ~heap[a].live
    /\ \E a \in LiveNodes :
        /\ heap[a].parent_ \notin {NULL, Root}
        /\ \E d \in 1 .. Len(heap) :
            ~heap[d].live /\ heap[d].pos_ = heap[heap[a].parent_].pos_

\* the node at a and its ancestors, by parent_
RECURSIVE Ancestors(_, _)
Ancestors(h, a) == IF a = NULL THEN {} ELSE {a} \cup Ancestors(h, h[a].parent_)

\* the nodes backpropagation has updated so far in this iteration
Updated == Ancestors(before, leaf) \ Ancestors(before, node)

\* C14: backpropagation calls update once on the iteration's final node and
\* on each of its ancestors up to the root, and on no other node; after k
\* completed iterations the root has visits = k.
C14_BackpropagationPath ==
    /\ pc = "backprop" =>
        /\ Len(heap) = Len(before)
        /\ Root \in Ancestors(before, leaf)
        /\ \A a \in 1 .. Len(heap) :
            IF a \in Updated
            THEN /\ heap[a].visits_ = before[a].visits_ + 1
                 /\ heap[a].wins_ \in {before[a].wins_, before[a].wins_ + 1}
                 /\ [heap[a] EXCEPT !.visits_ = before[a].visits_,
                                    !.wins_ = before[a].wins_] = before[a]
            ELSE heap[a] = before[a]
    /\ IterationsComplete /\ Started => heap[Root].visits_ = itr

\* C14 witness: backpropagation has ended after updating a path of three
\* nodes or more, with a visited node off the path left as it was
C14_Witness ==
    /\ pc = "backprop"
    /\ node = NULL
    /\ Cardinality(Ancestors(before, leaf)) >= 3
    /\ \E a \in LiveNodes \ Ancestors(before, leaf) : heap[a].visits_ >= 1

\* C15: the rollout starts with the opponent of the final node's mover to
\* act and the players alternate; the rollout winner is the opponent of the
\* player left with no legal move; a node on the backpropagation path has its
\* wins incremented if and only if the winner is the node's own mover.
C15_SignConvention ==
    /\ pc = "rollout" => bw = (1 - heap[node].bw_ + plies) % 2
    /\ pc = "backprop" =>
        /\ winner \in {0, 1}
        /\ LegalMoves(b, 1 - winner) = << >>
        /\ \A a \in Updated :
            heap[a].wins_ - before[a].wins_
                = (IF winner = before[a].bw_ THEN 1 ELSE 0)

\* C15 witness: backpropagation has ended on a path holding a node of the
\* winner's colour and a node of the loser's, after a rollout that played
C15_Witness ==
    /\ pc = "backprop"
    /\ node = NULL
    /\ plies >= 1
    /\ \E a1, a2 \in Ancestors(before, leaf) :
        /\ heap[a1].wins_ = before[a1].wins_ + 1
        /\ heap[a2].wins_ = before[a2].wins_

\* a step that expands the current node
ExpansionStep == pc = "select" /\ pc' = "rollout" /\ has_untried_moves(heap, node)

\* a step that plays one ply of the rollout
RolloutStep == pc = "rollout" /\ pc' = "rollout"

\* C16: every random draw of a search, the one of pop_untried_move in the
\* expansion and the one of each rollout ply, is taken from and advances the
\* one random source the driver owns; no node draws from a duplicate of its
\* own.
C16_Original ==
    [][/\ ExpansionStep =>
            LET d == UniformDraw(engine, Len(heap[node].moves_))
            IN  /\ engine' = d.engine
                /\ heap'[node'].pos_ = heap[node].moves_[d.value + 1]
                /\ \A a \in 1 .. Len(heap) : heap'[a].engine_ = heap[a].engine_
       /\ RolloutStep =>
            LET moves == LegalMoves(b, bw)
                d == UniformDraw(engine, Len(moves))
            IN  /\ engine' = d.engine
                /\ b' = Apply(b, moves[d.value + 1], bw)]_vars

\* the board the node at a was built on: the input state with the moves of
\* the path from the root played on it
RECURSIVE BoardAt(_, _)
BoardAt(h, a) ==
    IF h[a].parent_ = NULL THEN state
    ELSE Apply(BoardAt(h, h[a].parent_), h[a].pos_, h[a].bw_)

\* the positions of the children of the node at a, in order
ChildPositions(h, a) ==
    [i \in 1 .. Len(h[a].children_) |-> h[h[a].children_[i]].pos_]

\* C17: for every node of the tree, the untried moves and the positions of
\* the children are disjoint, the children's positions are pairwise distinct
\* (and so are the untried moves), and together they are the moves that were
\* legal for the opponent of the node's mover on the board the node was
\* created on; a popped move is therefore never offered again.
C17_MovesPartition ==
    Started /\ pc # "crashed" =>
        \A a \in LiveNodes :
            LET tried == ChildPositions(heap, a)
                untried == heap[a].moves_
            IN  /\ Range(untried) \cap Range(tried) = {}
                /\ Cardinality(Range(tried)) = Len(tried)
                /\ Cardinality(Range(untried)) = Len(untried)
                /\ Range(untried) \cup Range(tried)
                      = Range(LegalMoves(BoardAt(heap, a), 1 - heap[a].bw_))

\* C17 witness: the root has two children or more and no untried move left,
\* and a node below it has a child and untried moves left
C17_Witness ==
    /\ Started
    /\ Len(heap[Root].children_) >= 2
    /\ heap[Root].moves_ = << >>
    /\ \E a \in LiveNodes \ {Root} :
        /\ heap[a].children_ # << >>
        /\ heap[a].moves_ # << >>

\* the positions played from the root to the node at a: what names a node
\* of the tree while reallocations change its address
RECURSIVE PathOf(_, _)
PathOf(h, a) ==
    IF h[a].parent_ = NULL THEN << >>
    ELSE Append(PathOf(h, h[a].parent_), h[a].pos_)

LiveIn(h) == {a \in 1 .. Len(h) : h[a].live}

\* 0: unexpanded (untried moves, no children); 1: partially expanded (both);
\* 2: fully expanded (no untried move)
ExpansionRank(h, a) ==
    IF h[a].moves_ = << >> THEN 2
    ELSE IF h[a].children_ = << >> THEN 0 ELSE 1

IsPrefix(s, u) == Len(s) <= Len(u) /\ \A i \in 1 .. Len(s) : s[i] = u[i]

\* C18: in every step of a search every node of the tree is still in the
\* tree afterwards with no new untried move, with the children it had (in
\* their order, more may follow), with an expansion state that is the same
\* or a later one, and with visits and wins not below what they were.
C18_ExpansionMonotonic ==
    [][pc # "idle" /\ pc' # "crashed" =>
        \A a \in LiveIn(heap) : \E a2 \in LiveIn(heap') :
            /\ PathOf(heap', a2) = PathOf(heap, a)
            /\ Range(heap'[a2].moves_) \subseteq Range(heap[a].moves_)
            /\ IsPrefix(ChildPositions(heap, a), ChildPositions(heap', a2))
            /\ ExpansionRank(heap', a2) >= ExpansionRank(heap, a)
            /\ heap'[a2].visits_ >= heap[a].visits_
            /\ heap'[a2].wins_ >= heap[a].wins_]_vars

\* C18 witness: a node that went through a reallocation of its parent's
\* children is fully expanded with a child of its own, next to a sibling
\* that is still unexpanded
C18_Witness ==
    /\ Started
    /\ \E d \in 1 .. Len(heap) : ~heap[d].live
    /\ \E a, s \in LiveNodes \ {Root} :
        /\ heap[a].parent_ = heap[s].parent_
        /\ ExpansionRank(heap, a) = 2
        /\ heap[a].children_ # << >>
        /\ heap[a].visits_ >= 2
        /\ ExpansionRank(heap, s) = 0

\* C19: whenever the driver calls get_UCT_child on a node, the node has no
\* untried move and at least one child, and the node and each of its
\* children have visits >= 1: the score divides by no zero and takes the
\* logarithm of no zero.
C19_ScoresDefined ==
    [][SelectionStep =>
        /\ heap[node].live
        /\ heap[node].moves_ = << >>
        /\ heap[node].children_ # << >>
        /\ heap[node].visits_ >= 1
        /\ \A i \in 1 .. Len(heap[node].children_) :
            /\ heap[heap[node].children_[i]].live
            /\ heap[heap[node].children_[i]].visits_ >= 1
            /\ heap'[heap[node].children_[i]].uct_score_ >= 0]_vars

\* C19 witness: get_UCT_child has been called on a node below the root that
\* has two children, and has scored them
C19_Witness ==
    /\ pc = "select"
    /\ node # NULL
    /\ heap[node].parent_ \notin {NULL, Root}
    /\ Len(heap[heap[node].parent_].children_) >= 2
    /\ heap[node].uct_score_ # Uninitialized

\* C20: the move of every node of the tree is legal on the board its parent
\* was created on, and on arrival at a node, by selection or by expansion,
\* the scratch board is the board the node was created on: every move the
\* driver applies in selection and expansion is legal when it is applied.
C20_ScratchBoardFollowsPath ==
    Started /\ pc # "crashed" =>
        /\ \A a \in LiveNodes \ {Root} :
            Legal(BoardAt(heap, heap[a].parent_), heap[a].pos_, heap[a].bw_)
        /\ (pc = "select" \/ (pc = "rollout" /\ plies = 0)) =>
              b = BoardAt(heap, node)

\* C20 witness: selection has arrived two levels below the root, on a board
\* that is not the input board
C20_Witness ==
    /\ pc = "select"
    /\ node # NULL
    /\ heap[node].parent_ \notin {NULL, Root}
    /\ b # state
    /\ b = BoardAt(heap, node)

\* C21: whenever update() runs in the tuple_agent, prev is the board passed
\* by the previous put_board call and current the board passed by the latest
\* one, and neither is NULL.
C21_Original ==
    ran =>
        /\ prev # NULL
        /\ current # NULL
        /\ prev = calls[Len(calls) - 1]
        /\ current = calls[Len(calls)]

====
